---- MODULE Spec2Model ----
(***************************************************************************)
(* Model of readJsonFileLineByLine (server/nextjs/src/route.ts): a         *)
(* line-by-line reader of a JSON-lines file that keeps the first record    *)
(* of every composite key  s + "::" + o.                                   *)
(*                                                                         *)
(* Strings are sequences of one-character strings, so that concatenation   *)
(* and string equality are computed and not assumed.  The file stream and  *)
(* the readline async iterator are modelled by the events they deliver to  *)
(* the for-await loop (Node >= 16: readline forwards the input stream's    *)
(* 'error' to the iterator, which drains the lines already emitted and     *)
(* then throws; the stream closes its descriptor itself, autoClose).       *)
(***************************************************************************)
EXTENDS Integers, Sequences, FiniteSets, TLC

\* ------------------------------------------------------------------ bounds
MaxLines == 3
MaxConcLines == 2

Calls == {1, 2}

\* ----------------------------------------------------------------- strings
Sep == <<":", ":">>
UndefinedChars == <<"u", "n", "d", "e", "f", "i", "n", "e", "d">>
NullChars == <<"n", "u", "l", "l">>
WhiteSpace == {" ", "\t"}

\* String.prototype.trim, left end
RECURSIVE TrimLeft(_)
TrimLeft(cs) ==
  IF cs # <<>> /\ Head(cs) \in WhiteSpace THEN TrimLeft(Tail(cs)) ELSE cs

\* String.prototype.trim, right end
RECURSIVE TrimRight(_)
TrimRight(cs) ==
  IF cs # <<>> /\ cs[Len(cs)] \in WhiteSpace
  THEN TrimRight(SubSeq(cs, 1, Len(cs) - 1))
  ELSE cs

Trim(cs) == TrimRight(TrimLeft(cs))

\* ------------------------------------------------------------- JSON values
\* A property value of a decoded object, as far as obj.s + "::" + obj.o
\* reads it: absent (undefined), null, a string, or an object that has no
\* callable toString (such as {"toString":1}), which cannot be coerced.
Absent == [t |-> "absent", chars |-> <<>>]
JNullField == [t |-> "null", chars |-> <<>>]
Str(cs) == [t |-> "string", chars |-> cs]
Uncoercible == [t |-> "object", chars |-> <<>>]

\* Decoded JSON values: null, a number, or an object with fields s, o and an
\* opaque payload p.
JNull == [t |-> "null", s |-> Absent, o |-> Absent, p |-> 0]
JNumber(n) == [t |-> "number", s |-> Absent, o |-> Absent, p |-> n]
JObject(s, o, p) == [t |-> "object", s |-> s, o |-> o, p |-> p]
SyntaxError == [t |-> "SyntaxError", s |-> Absent, o |-> Absent, p |-> 0]

\* A line of the file: its characters as far as trim() reads them, and the
\* outcome of JSON.parse on it.
Line(text, json) == [text |-> text, json |-> json]

EmptyLine == Line(<<>>, SyntaxError)
SpacesLine == Line(<<" ", "\t">>, SyntaxError)
GarbageLine == Line(<<"x">>, SyntaxError)
NullLine == Line(NullChars, JNull)
NumberLine == Line(<<"7">>, JNumber(7))
AB1 == Line(<<"{">>, JObject(Str(<<"a">>), Str(<<"b">>), 1))
AB2 == Line(<<"{">>, JObject(Str(<<"a">>), Str(<<"b">>), 2))
SepInS == Line(<<"{">>, JObject(Str(<<"a", ":", ":">>), Str(<<"b">>), 1))
SepInO == Line(<<"{">>, JObject(Str(<<"a">>), Str(<<":", ":", "b">>), 1))
NoFields == Line(<<"{">>, JObject(Absent, Absent, 1))
BadField == Line(<<"{">>, JObject(Uncoercible, Str(<<"b">>), 1))

Lines ==
  {EmptyLine, SpacesLine, GarbageLine, NullLine, NumberLine, AB1, AB2,
   SepInS, SepInO, NoFields, BadField}

SmallLines == {GarbageLine, AB1, AB2}

SeqsUpTo(S, n) == UNION {[1..k -> S] : k \in 0..n}

\* ------------------------------------------------------- the loop's body
\* a slip: if (line) instead of if (line.trim())
IsBlankNoTrim(line) == line.text = <<>>

\* line.trim() is falsy
IsBlank(line) == Trim(line.text) = <<>>

\* JSON.parse(line) returns
ParseOk(line) == line.json.t # "SyntaxError"

JSONparse(line) == line.json

\* obj.s / obj.o: undefined on a primitive, a TypeError on null
PropThrows(obj) == obj.t = "null"

Prop(obj, name) ==
  IF obj.t = "object" THEN (IF name = "s" THEN obj.s ELSE obj.o) ELSE Absent

\* the string coercion of the + operator
Coercible(f) == f.t # "object"

ToStr(f) ==
  CASE f.t = "absent" -> UndefinedChars
    [] f.t = "null" -> NullChars
    [] OTHER -> f.chars

\* obj.s + "::" + obj.o throws
MangleThrows(obj) ==
  \/ PropThrows(obj)
  \/ ~Coercible(Prop(obj, "s"))
  \/ ~Coercible(Prop(obj, "o"))

Mangle(obj) == ToStr(Prop(obj, "s")) \o Sep \o ToStr(Prop(obj, "o"))

EmptyState == [set |-> {}, jsonObjects |-> <<>>, diag |-> <<>>]

\* a slip: the key is never recorded
AcceptNoAdd(st, obj, mangled) ==
  [st EXCEPT !.jsonObjects = Append(@, obj)]

\* a slip: unshift instead of push
AcceptUnshift(st, obj, mangled) ==
  [st EXCEPT !.set = @ \cup {mangled}, !.jsonObjects = <<obj>> \o @]

\* set.add(mangled); jsonObjects.push(obj)
Accept(st, obj, mangled) ==
  [st EXCEPT !.set = @ \cup {mangled}, !.jsonObjects = Append(@, obj)]

\* a slip: the push sits after the try block and runs for a failed line too
OnCatchPush(st, line) ==
  [st EXCEPT !.diag = Append(@, line),
             !.jsonObjects = Append(@, JSONparse(line))]

\* catch (error) { console.error(...line...) }
OnCatch(st, line) == [st EXCEPT !.diag = Append(@, line)]

ProcessLine(st, line) ==
  IF IsBlank(line) THEN st
  ELSE IF ~ParseOk(line) THEN OnCatch(st, line)
  ELSE LET obj == JSONparse(line) IN
       IF MangleThrows(obj) THEN OnCatch(st, line)
       ELSE LET mangled == Mangle(obj) IN
            IF mangled \in st.set THEN st ELSE Accept(st, obj, mangled)

\* the whole pass over a sequence of lines, with no I/O failure
RECURSIVE ReadAll(_)
ReadAll(ls) ==
  IF ls = <<>> THEN EmptyState
  ELSE ProcessLine(ReadAll(SubSeq(ls, 1, Len(ls) - 1)), ls[Len(ls)])

\* ------------------------------------------------------------------- state
VARIABLES file, exists, pc, stream, fd, closes, delivered, consumed,
          set, jsonObjects, diag, ret

vars == <<file, exists, pc, stream, fd, closes, delivered, consumed,
          set, jsonObjects, diag, ret>>

NoValue == <<"no value">>

\* a slip: the Set hoisted to module scope, one for all calls
SetCellShared(c) == 1

\* the Set a call uses: its own (var set inside the function)
SetCell(c) == c

InitCalls ==
  /\ pc = [c \in Calls |-> "idle"]
  /\ stream = [c \in Calls |-> "none"]
  /\ fd = [c \in Calls |-> "none"]
  /\ closes = [c \in Calls |-> 0]
  /\ delivered = [c \in Calls |-> 0]
  /\ consumed = [c \in Calls |-> 0]
  /\ set = [c \in Calls |-> {}]
  /\ jsonObjects = [c \in Calls |-> <<>>]
  /\ diag = [c \in Calls |-> <<>>]
  /\ ret = [c \in Calls |-> NoValue]

\* one call, on any file of up to MaxLines lines, or on a missing file
Init ==
  /\ \E e \in BOOLEAN, ls \in SeqsUpTo(Lines, MaxLines) :
       /\ exists = [c \in Calls |-> IF c = 1 THEN e ELSE TRUE]
       /\ file = [c \in Calls |-> IF c = 1 /\ e THEN ls ELSE <<>>]
       /\ (~e => ls = <<>>)
  /\ InitCalls

\* two calls, each on a file of up to MaxConcLines lines
InitConc ==
  /\ exists \in [Calls -> BOOLEAN]
  /\ file \in [Calls -> SeqsUpTo(SmallLines, MaxConcLines)]
  /\ \A c \in Calls : ~exists[c] => file[c] = <<>>
  /\ InitCalls

\* ----------------------------------------------------------------- actions
\* lines 5-13: the accumulators, the stream, the interface, the first await
Invoke(c) ==
  /\ pc[c] = "idle"
  /\ pc' = [pc EXCEPT ![c] = "await"]
  /\ set' = [set EXCEPT ![SetCell(c)] = {}]
  /\ jsonObjects' = [jsonObjects EXCEPT ![c] = <<>>]
  /\ stream' = [stream EXCEPT ![c] = "opening"]
  /\ UNCHANGED <<file, exists, fd, closes, delivered, consumed, diag, ret>>

\* createReadStream: the open succeeds
OpenOk(c) ==
  /\ stream[c] = "opening"
  /\ exists[c]
  /\ stream' = [stream EXCEPT ![c] = "open"]
  /\ fd' = [fd EXCEPT ![c] = "open"]
  /\ UNCHANGED <<file, exists, pc, closes, delivered, consumed, set,
                 jsonObjects, diag, ret>>

\* a slip: an 'error' listener that swallows the failure and ends the stream
OpenFailSwallowed(c) ==
  /\ stream[c] = "opening"
  /\ ~exists[c]
  /\ stream' = [stream EXCEPT ![c] = "ended"]
  /\ UNCHANGED <<file, exists, pc, fd, closes, delivered, consumed, set,
                 jsonObjects, diag, ret>>

\* createReadStream: the open fails, the stream emits 'error'
OpenFail(c) ==
  /\ stream[c] = "opening"
  /\ ~exists[c]
  /\ stream' = [stream EXCEPT ![c] = "errored"]
  /\ UNCHANGED <<file, exists, pc, fd, closes, delivered, consumed, set,
                 jsonObjects, diag, ret>>

\* the interface emits the next line of the file
Deliver(c) ==
  /\ stream[c] = "open"
  /\ delivered[c] < Len(file[c])
  /\ delivered' = [delivered EXCEPT ![c] = @ + 1]
  /\ UNCHANGED <<file, exists, pc, stream, fd, closes, consumed, set,
                 jsonObjects, diag, ret>>

\* end of file: the stream emits 'end', the interface closes
StreamEnd(c) ==
  /\ stream[c] = "open"
  /\ delivered[c] = Len(file[c])
  /\ stream' = [stream EXCEPT ![c] = "ended"]
  /\ UNCHANGED <<file, exists, pc, fd, closes, delivered, consumed, set,
                 jsonObjects, diag, ret>>

\* a read fails: the stream emits 'error'
StreamError(c) ==
  /\ stream[c] = "open"
  /\ stream' = [stream EXCEPT ![c] = "errored"]
  /\ UNCHANGED <<file, exists, pc, fd, closes, delivered, consumed, set,
                 jsonObjects, diag, ret>>

\* a slip: the descriptor is closed on 'end' only
AutoCloseOnEndOnly(c) ==
  /\ stream[c] = "ended"
  /\ fd[c] = "open"
  /\ fd' = [fd EXCEPT ![c] = "closed"]
  /\ closes' = [closes EXCEPT ![c] = @ + 1]
  /\ UNCHANGED <<file, exists, pc, stream, delivered, consumed, set,
                 jsonObjects, diag, ret>>

\* autoClose: the stream closes its descriptor after 'end' or 'error'
AutoClose(c) ==
  /\ stream[c] \in {"ended", "errored"}
  /\ fd[c] = "open"
  /\ fd' = [fd EXCEPT ![c] = "closed"]
  /\ closes' = [closes EXCEPT ![c] = @ + 1]
  /\ UNCHANGED <<file, exists, pc, stream, delivered, consumed, set,
                 jsonObjects, diag, ret>>

\* lines 13-28: the loop resumes with the next emitted line
LoopBody(c) ==
  /\ pc[c] = "await"
  /\ consumed[c] < delivered[c]
  /\ LET st == [set |-> set[SetCell(c)], jsonObjects |-> jsonObjects[c],
                diag |-> diag[c]]
         nst == ProcessLine(st, file[c][consumed[c] + 1])
     IN  /\ set' = [set EXCEPT ![SetCell(c)] = nst.set]
         /\ jsonObjects' = [jsonObjects EXCEPT ![c] = nst.jsonObjects]
         /\ diag' = [diag EXCEPT ![c] = nst.diag]
  /\ consumed' = [consumed EXCEPT ![c] = @ + 1]
  /\ UNCHANGED <<file, exists, pc, stream, fd, closes, delivered, ret>>

\* a slip: a failed stream ends the iteration like an end of file
IterDoneOnClose(c) ==
  consumed[c] = delivered[c] /\ stream[c] \in {"ended", "errored"}

\* the iterator is done: every emitted line was taken and the interface closed
IterDone(c) == consumed[c] = delivered[c] /\ stream[c] = "ended"

\* the iterator throws: every emitted line was taken and the stream failed
IterThrows(c) == consumed[c] = delivered[c] /\ stream[c] = "errored"

\* line 29: return jsonObjects
Return(c) ==
  /\ pc[c] = "await"
  /\ IterDone(c)
  /\ pc' = [pc EXCEPT ![c] = "resolved"]
  /\ ret' = [ret EXCEPT ![c] = jsonObjects[c]]
  /\ UNCHANGED <<file, exists, stream, fd, closes, delivered, consumed, set,
                 jsonObjects, diag>>

\* line 13: the await throws, nothing catches it, the promise rejects
Reject(c) ==
  /\ pc[c] = "await"
  /\ IterThrows(c)
  /\ pc' = [pc EXCEPT ![c] = "rejected"]
  /\ UNCHANGED <<file, exists, stream, fd, closes, delivered, consumed, set,
                 jsonObjects, diag, ret>>

Step(c) ==
  \/ Invoke(c)
  \/ OpenOk(c)
  \/ OpenFail(c)
  \/ Deliver(c)
  \/ StreamEnd(c)
  \/ StreamError(c)
  \/ AutoClose(c)
  \/ LoopBody(c)
  \/ Return(c)
  \/ Reject(c)

Next == Step(1)

NextConc == \E c \in Calls : Step(c)

Spec == Init /\ [][Next]_vars

SpecConc == InitConc /\ [][NextConc]_vars

\* one call on a small file; the event loop runs every callback that is
\* ready, and a pending file operation completes.  A read error is the
\* environment's choice and has no fairness.
InitFair ==
  /\ \E e \in BOOLEAN, ls \in SeqsUpTo(SmallLines, MaxConcLines) :
       /\ exists = [c \in Calls |-> IF c = 1 THEN e ELSE TRUE]
       /\ file = [c \in Calls |-> IF c = 1 /\ e THEN ls ELSE <<>>]
       /\ (~e => ls = <<>>)
  /\ InitCalls

Fairness ==
  /\ WF_vars(Invoke(1))
  /\ WF_vars(OpenOk(1))
  /\ WF_vars(OpenFail(1))
  /\ WF_vars(Deliver(1))
  /\ WF_vars(StreamEnd(1))
  /\ WF_vars(AutoClose(1))
  /\ WF_vars(LoopBody(1))
  /\ WF_vars(Return(1))
  /\ WF_vars(Reject(1))

SpecFair == InitFair /\ [][Next]_vars /\ Fairness

\* ------------------------------------------------------- reading the claims
\* The claims' own vocabulary, stated on the input and not on the code's tests.

\* empty, or whitespace only
Blank(line) == \A i \in DOMAIN line.text : line.text[i] \in WhiteSpace

\* a non-blank line that is not a JSON text
Malformed(line) == ~Blank(line) /\ line.json = SyntaxError

\* a non-blank line that decodes and whose key s + "::" + o is defined
\* (computing it on null, or on a field with no string form, throws)
Keyed(line) ==
  /\ ~Blank(line)
  /\ line.json # SyntaxError
  /\ line.json # JNull
  /\ (line.json.t = "object" => line.json.s # Uncoercible /\ line.json.o # Uncoercible)

KeyOf(line) == Mangle(line.json)

\* the first line of ls that carries key k
FirstWith(ls, k) ==
  CHOOSE j \in DOMAIN ls :
    /\ Keyed(ls[j]) /\ KeyOf(ls[j]) = k
    /\ \A h \in 1..(j - 1) : ~(Keyed(ls[h]) /\ KeyOf(ls[h]) = k)

\* the records of the keyed lines whose key no earlier line carries, in order
RECURSIVE FirstOccurrences(_)
FirstOccurrences(ls) ==
  IF ls = <<>> THEN <<>>
  ELSE LET front == SubSeq(ls, 1, Len(ls) - 1)
           last == ls[Len(ls)]
       IN  IF /\ Keyed(last)
              /\ \A i \in DOMAIN front :
                   ~(Keyed(front[i]) /\ KeyOf(front[i]) = KeyOf(last))
           THEN Append(FirstOccurrences(front), last.json)
           ELSE FirstOccurrences(front)

RemoveAt(ls, i) == SubSeq(ls, 1, i - 1) \o SubSeq(ls, i + 1, Len(ls))

StripBlank(ls) == SelectSeq(ls, LAMBDA l : ~Blank(l))

\* C1: the returned sequence holds no two records with the same key, and for
\* every key carried by some decodable non-blank line it holds exactly one
\* record with that key, the one decoded from the first line carrying it.
C1_DedupCorrect ==
  \A c \in Calls :
    pc[c] = "resolved" =>
      /\ \A i, j \in DOMAIN ret[c] :
           i # j => Mangle(ret[c][i]) # Mangle(ret[c][j])
      /\ \A i \in DOMAIN file[c] :
           Keyed(file[c][i]) =>
             LET k == KeyOf(file[c][i])
                 hits == {n \in DOMAIN ret[c] : Mangle(ret[c][n]) = k}
             IN  /\ Cardinality(hits) = 1
                 /\ \A n \in hits :
                      ret[c][n] = file[c][FirstWith(file[c], k)].json

\* a call returned after reading a record, a later duplicate of its key with
\* another payload, and a record of another key
C1_Witness ==
  /\ pc[1] = "resolved"
  /\ Len(ret[1]) = 2
  /\ \E i, j \in DOMAIN file[1] :
       /\ i < j
       /\ Keyed(file[1][i]) /\ Keyed(file[1][j])
       /\ KeyOf(file[1][i]) = KeyOf(file[1][j])
       /\ file[1][i].json # file[1][j].json

\* the result sequence only ever grows at its end
AppendOnly ==
  \A c \in Calls :
    \/ jsonObjects'[c] = jsonObjects[c]
    \/ /\ Len(jsonObjects'[c]) = Len(jsonObjects[c]) + 1
       /\ SubSeq(jsonObjects'[c], 1, Len(jsonObjects[c])) = jsonObjects[c]

\* the result sequence is the first occurrences among the lines consumed
InFirstSeenOrder ==
  \A c \in Calls :
    /\ jsonObjects[c] = FirstOccurrences(SubSeq(file[c], 1, consumed[c]))
    /\ pc[c] = "resolved" => ret[c] = FirstOccurrences(file[c])

\* C2: at every point of the pass and in the returned value the records are
\* in the order in which their keys first occurred in the lines consumed so
\* far, and a further line only appends: nothing is reordered, removed or
\* replaced.
C2_OrderPreserved == []InFirstSeenOrder /\ [][AppendOnly]_vars

\* mid-pass: two records accepted, a duplicate of the first consumed after them
C2_Witness ==
  /\ pc[1] = "await"
  /\ consumed[1] = 3
  /\ Len(jsonObjects[1]) = 2
  /\ Keyed(file[1][3])
  /\ KeyOf(file[1][3]) = Mangle(jsonObjects[1][1])

\* C3: a line that is not valid JSON leaves the returned sequence and the
\* seen-key set as they are for the input without that line, adds exactly
\* one diagnostic, and does not make the call fail.
C3_MalformedResilient ==
  \A c \in Calls :
    /\ pc[c] = "rejected" => stream[c] = "errored"
    /\ pc[c] = "resolved" =>
         \A i \in DOMAIN file[c] :
           Malformed(file[c][i]) =>
             LET alone == ReadAll(RemoveAt(file[c], i))
             IN  /\ ret[c] = alone.jsonObjects
                 /\ set[c] = alone.set
                 /\ Len(diag[c]) = Len(alone.diag) + 1

\* a call returned records read before and after a malformed line
C3_Witness ==
  /\ pc[1] = "resolved"
  /\ Len(file[1]) = 3
  /\ Malformed(file[1][2])
  /\ Len(ret[1]) = 2
  /\ Len(diag[1]) = 1

\* C4: blank lines (empty or whitespace only) change neither the returned
\* sequence nor the diagnostics, and an input with no line or only blank
\* lines returns the empty sequence and is no error.
C4_BlankTransparent ==
  \A c \in Calls :
    /\ pc[c] = "resolved" =>
         LET alone == ReadAll(StripBlank(file[c]))
         IN  /\ ret[c] = alone.jsonObjects
             /\ diag[c] = alone.diag
             /\ StripBlank(file[c]) = <<>> => ret[c] = <<>> /\ diag[c] = <<>>
    /\ \A i \in DOMAIN diag[c] : ~Blank(diag[c][i])
    /\ StripBlank(file[c]) = <<>> /\ stream[c] = "ended" => pc[c] # "rejected"

\* a call returned a record read between an empty and a whitespace-only line
C4_Witness ==
  /\ pc[1] = "resolved"
  /\ Len(file[1]) = 3
  /\ file[1][1] = EmptyLine
  /\ file[1][3] = SpacesLine
  /\ Len(ret[1]) = 1

\* an all-blank file was read to its end and the call returned
C4_WitnessAllBlank ==
  /\ pc[1] = "resolved"
  /\ file[1] = <<SpacesLine, EmptyLine>>

\* C5: when the file cannot be opened the call fails and the failure reaches
\* the caller (the promise rejects); it never resolves, with an empty or a
\* partial sequence.
C5_FatalOnMissing ==
  /\ [](\A c \in Calls : ~exists[c] => pc[c] # "resolved" /\ ret[c] = NoValue)
  /\ \A c \in Calls : (~exists[c] /\ pc[c] = "await") ~> (pc[c] = "rejected")

\* the open failed and the call rejected
C5_Witness ==
  /\ ~exists[1]
  /\ stream[1] = "errored"
  /\ fd[1] = "none"
  /\ pc[1] = "rejected"

\* C6: a call ends by returning the complete deduplicated sequence of all
\* lines of the file, or by failing as a whole; after an I/O error it fails
\* and returns no sequence built from the lines read before the error.
C6_AllOrNothing ==
  \A c \in Calls :
    /\ pc[c] = "resolved" =>
         /\ consumed[c] = Len(file[c])
         /\ stream[c] = "ended"
         /\ ret[c] = FirstOccurrences(file[c])
    /\ pc[c] = "rejected" => ret[c] = NoValue
    /\ stream[c] = "errored" => pc[c] # "resolved"
    /\ ~ENABLED Step(c) => pc[c] \in {"resolved", "rejected"}

\* a read error after a record was accepted and before the last line was
\* emitted: the call rejected
C6_Witness ==
  /\ pc[1] = "rejected"
  /\ fd[1] # "none"
  /\ jsonObjects[1] # <<>>
  /\ delivered[1] < Len(file[1])

\* a descriptor is closed at most once and stays closed
ClosedOnce ==
  \A c \in Calls :
    /\ closes[c] <= 1
    /\ fd[c] = "closed" <=> closes[c] = 1
    /\ pc[c] \in {"resolved", "rejected"} /\ ~ENABLED AutoClose(c)
         => fd[c] \in {"none", "closed"}

StaysClosed == \A c \in Calls : fd[c] = "closed" => fd'[c] = "closed"

\* C7: the file handle a call opened is eventually released, exactly once, on
\* every exit path: end of stream, decode errors, a failed open (no handle
\* was opened), a read error in mid-stream.
C7_HandleReleased ==
  /\ []ClosedOnce
  /\ [][StaysClosed]_vars
  /\ \A c \in Calls : (fd[c] = "open") ~> (fd[c] = "closed")

\* a read error in mid-stream, after a decode error was reported: the call
\* rejected and the descriptor is closed
C7_Witness ==
  /\ pc[1] = "rejected"
  /\ delivered[1] < Len(file[1])
  /\ diag[1] # <<>>
  /\ fd[1] = "closed"
  /\ closes[1] = 1

\* C8: concurrent calls, interleaved in any order, each return the sequence
\* they return when run alone; a key seen by one call never makes another
\* call drop a record.
C8_Independent ==
  \A c \in Calls :
    /\ pc[c] = "resolved" => ret[c] = ReadAll(file[c]).jsonObjects
    /\ pc[c] = "await" =>
         jsonObjects[c] = ReadAll(SubSeq(file[c], 1, consumed[c])).jsonObjects

\* two calls in mid-pass at once, both having accepted a record of one key
C8_Witness ==
  /\ pc[1] = "await" /\ pc[2] = "await"
  /\ consumed[1] = 1 /\ consumed[2] = 1
  /\ Len(file[1]) = 2 /\ Len(file[2]) = 2
  /\ Len(jsonObjects[1]) = 1 /\ Len(jsonObjects[2]) = 1
  /\ Mangle(jsonObjects[1][1]) = Mangle(jsonObjects[2][1])
  /\ jsonObjects[1][1] # jsonObjects[2][1]

\* C9: a non-blank line that decodes as a JSON value (an object, or null, a
\* number, ...) is appended or discarded as a duplicate and never produces a
\* diagnostic; diagnostics are emitted for lines that are not valid JSON and
\* for no others.
C9_DiagnosticsOnlyForInvalidJSON ==
  \A c \in Calls :
    /\ \A i \in DOMAIN diag[c] : diag[c][i].json = SyntaxError
    /\ \A i \in 1..consumed[c] :
         LET line == file[c][i]
         IN  ~Blank(line) /\ line.json # SyntaxError =>
               \E n \in DOMAIN jsonObjects[c] :
                 /\ Prop(jsonObjects[c][n], "s") = Prop(line.json, "s")
                 /\ Prop(jsonObjects[c][n], "o") = Prop(line.json, "o")

\* C10: a decoded record is dropped as a duplicate only when an earlier
\* accepted record has the same s and the same o; records whose (s, o) pairs
\* differ are both in the returned sequence.
C10_DroppedOnlyOnEqualPair ==
  \A c \in Calls :
    \A i \in 1..consumed[c] :
      LET line == file[c][i]
      IN  Keyed(line) =>
            \E n \in DOMAIN jsonObjects[c] :
              /\ Prop(jsonObjects[c][n], "s") = Prop(line.json, "s")
              /\ Prop(jsonObjects[c][n], "o") = Prop(line.json, "o")

====
